---- MODULE Spec2Model ----
(***************************************************************************)
(* The /clip pipeline of src/main.py (create_clip): request validation by  *)
(* the ClipRequest model, download of the source, one ffmpeg cut per       *)
(* segment, the concat list file, the ffmpeg concatenation and the file    *)
(* response.  Several requests run concurrently on one "downloads"         *)
(* directory; one step of one request is one action.                       *)
(*                                                                         *)
(* External tools are modelled by their outcome: yt_dlp either returns or  *)
(* raises, ffmpeg exits with status zero or non-zero.  The handler never   *)
(* reads an exit status, so the status is kept in history variables        *)
(* (fetched, cutOk, concatOk) that no action reads.                        *)
(***************************************************************************)
EXTENDS Integers, Sequences, FiniteSets, TLC

VARIABLES pc, req, uid, i, clip_paths, fs, response,
          fetched, cutOk, concatOk, writes, reads

vars == <<pc, req, uid, i, clip_paths, fs, response,
          fetched, cutOk, concatOk, writes, reads>>

\* ------------------------------------------------------------------ bounds

\* Segments of all the concurrent requests together.
MaxTotalSegs == 3

\* Concurrent requests.
Runs == {1, 2}

\* Values uuid.uuid4() can return (stand-ins for the 36-character strings).
UIDs == {"4f1a", "9c3e"}

\* The video the requests ask for (no path and no branch of the handler
\* depends on the URL).
URLs == {"https://yt/v=A"}

\* Segment values (seconds): a later range, an earlier one, and one whose end
\* precedes its start.
SegValues ==
    { [start |-> 10, end |-> 15], [start |-> 0, end |-> 5],
      [start |-> 5, end |-> 3] }

RECURSIVE SeqsUpTo(_, _)
SeqsUpTo(S, n) ==
    IF n = 0 THEN {<<>>}
    ELSE LET shorter == SeqsUpTo(S, n - 1)
         IN  shorter \cup {Append(s, x) : s \in shorter, x \in S}

\* Request bodies: typed = FALSE stands for a body the ClipRequest model
\* cannot parse (a missing field, a non-numeric bound, a non-URL).
Bodies ==
    { [typed |-> TRUE, url |-> u, segments |-> s] :
        u \in URLs, s \in SeqsUpTo(SegValues, MaxTotalSegs) }
    \cup { [typed |-> FALSE, url |-> "", segments |-> <<>>] }

NoBody == [typed |-> FALSE, url |-> "", segments |-> <<>>]

\* ------------------------------------------------------------------ paths

InputFile(u) == "downloads/" \o u \o ".mp4"

\* A clip name that leaves the run identifier out.
ClipPathShared(u, k) == "downloads/part" \o ToString(k) \o ".mp4"

ClipPath(u, k) == "downloads/" \o u \o "_part" \o ToString(k) \o ".mp4"

ListFile(u) == "downloads/" \o u \o "_list.txt"

FinalOutput(u) == "downloads/" \o u \o "_final.mp4"

ManifestLine(p) == "file '" \o p \o "'\n"

\* ------------------------------------------------------------------ files

\* A file's content: what the tool that wrote it put there.  parts is the
\* sequence of (url, start, end) ranges a media file plays, lines the text
\* lines of a list file.
SourceContent(url) ==
    [kind |-> "source", url |-> url, parts |-> <<>>, lines |-> <<>>]

ClipContent(src, seg) ==
    [kind |-> "clip", url |-> src.url,
     parts |-> <<[url |-> src.url, start |-> seg.start, end |-> seg.end]>>,
     lines |-> <<>>]

ListContent(lines) ==
    [kind |-> "list", url |-> "", parts |-> <<>>, lines |-> lines]

FinalContent(parts) ==
    [kind |-> "final", url |-> "", parts |-> parts, lines |-> <<>>]

\* What a failed concatenation can leave behind under -y: a truncated file.
PartialContent ==
    [kind |-> "partial", url |-> "", parts |-> <<>>, lines |-> <<>>]

Exists(f, p) == p \in DOMAIN f

WriteFile(f, p, c) == (p :> c) @@ f

\* ------------------------------------------------------------------ responses

NoResponse == [kind |-> "none", status |-> 0, path |-> "", detail |-> ""]

\* FastAPI's answer to a body the ClipRequest model rejects.
ValidationError ==
    [kind |-> "error", status |-> 422, path |-> "", detail |-> "validation"]

HTTPException(status, detail) ==
    [kind |-> "error", status |-> status, path |-> "", detail |-> detail]

FileResponse(path) ==
    [kind |-> "file", status |-> 200, path |-> path, detail |-> ""]

\* The segment indices a response reports as failed: a file response is the
\* file and its name, an error response a status and a detail string.
ReportedFailures(resp) == {}

\* ------------------------------------------------------------------ state

Init ==
    /\ pc = [r \in Runs |-> "idle"]
    /\ req = [r \in Runs |-> NoBody]
    /\ uid = [r \in Runs |-> ""]
    /\ i = [r \in Runs |-> 0]
    /\ clip_paths = [r \in Runs |-> <<>>]
    /\ fs = <<>>
    /\ response = [r \in Runs |-> NoResponse]
    /\ fetched = [r \in Runs |-> "none"]
    /\ cutOk = [r \in Runs |-> <<>>]
    /\ concatOk = [r \in Runs |-> "none"]
    /\ writes = {}
    /\ reads = {}

NumSegs(r) == Len(req[r].segments)

RECURSIVE SegsOf(_)
SegsOf(rs) ==
    IF rs = {} THEN 0
    ELSE LET q == CHOOSE x \in rs : TRUE
         IN  NumSegs(q) + SegsOf(rs \ {q})

\* POST /clip arrives with a body.
Submit(r) ==
    /\ pc[r] = "idle"
    /\ \E body \in Bodies :
          /\ Len(body.segments) + SegsOf(Runs \ {r}) <= MaxTotalSegs
          /\ req' = [req EXCEPT ![r] = body]
    /\ pc' = [pc EXCEPT ![r] = "validating"]
    /\ UNCHANGED <<uid, i, clip_paths, fs, response, fetched, cutOk,
                   concatOk, writes, reads>>

\* What the ClipRequest and Segment models accept: any typed body.  Neither
\* class declares a validator or a field constraint.
Accepts(body) == body.typed

\* The identifiers uuid.uuid4() may return to a new run.
FreshUids == UIDs \ {uid[q] : q \in Runs}

\* The body is parsed into a ClipRequest; the handler is entered and draws
\* its run identifier.
Validate(r) ==
    /\ pc[r] = "validating"
    /\ IF Accepts(req[r])
       THEN /\ \E u \in FreshUids : uid' = [uid EXCEPT ![r] = u]
            /\ pc' = [pc EXCEPT ![r] = "fetching"]
            /\ UNCHANGED response
       ELSE /\ pc' = [pc EXCEPT ![r] = "failed"]
            /\ response' = [response EXCEPT ![r] = ValidationError]
            /\ UNCHANGED uid
    /\ UNCHANGED <<req, i, clip_paths, fs, fetched, cutOk, concatOk,
                   writes, reads>>

\* The stage the for loop is in with k segments done out of n.
LoopPc(k, n) == IF k < n THEN "cutting" ELSE "listing"

\* A download whose exception is swallowed.
AfterDownloadSwallowed(ok, n) == LoopPc(0, n)

\* The stage after ydl.download: the try block returns or raises.
AfterDownload(ok, n) == IF ok THEN LoopPc(0, n) ELSE "failed"

\* ydl.download into input_file.  A failed download may leave the file
\* behind (a failure after the file was written) or not.
Download(r) ==
    /\ pc[r] = "fetching"
    /\ \E ok \in BOOLEAN, left \in BOOLEAN :
          /\ ok => left
          /\ fs' = IF left
                   THEN WriteFile(fs, InputFile(uid[r]), SourceContent(req[r].url))
                   ELSE fs
          /\ fetched' = [fetched EXCEPT ![r] = IF ok THEN "ok" ELSE "failed"]
          /\ pc' = [pc EXCEPT ![r] = AfterDownload(ok, NumSegs(r))]
          /\ response' = [response EXCEPT ![r] =
                IF ok THEN @ ELSE HTTPException(500, "Download failed")]
    /\ writes' = writes \cup {<<r, InputFile(uid[r])>>}
    /\ UNCHANGED <<req, uid, i, clip_paths, cutOk, concatOk, reads>>

\* A list built newest first.
RecordClipFirst(paths, line, ok) == <<line>> \o paths

\* A list that skips the clips whose cut failed.
RecordClipIfOk(paths, line, ok) == IF ok THEN Append(paths, line) ELSE paths

\* clip_paths.append(...) after subprocess.run: the exit status ok of the cut
\* is not looked at.
RecordClip(paths, line, ok) == Append(paths, line)

\* One iteration of the for loop: ffmpeg cuts segment i of input_file into
\* clip_path, and the list line of clip_path is appended.  A cut that exits
\* non-zero leaves no clip file.
Cut(r) ==
    /\ pc[r] = "cutting"
    /\ i[r] < NumSegs(r)
    /\ LET seg == req[r].segments[i[r] + 1]
           input_file == InputFile(uid[r])
           clip_path == ClipPath(uid[r], i[r])
       IN  /\ \E ok \in (IF Exists(fs, input_file) THEN BOOLEAN ELSE {FALSE}) :
                /\ fs' = IF ok
                         THEN WriteFile(fs, clip_path,
                                        ClipContent(fs[input_file], seg))
                         ELSE fs
                /\ cutOk' = [cutOk EXCEPT ![r] = Append(@, ok)]
                /\ clip_paths' = [clip_paths EXCEPT ![r] =
                      RecordClip(@, ManifestLine(clip_path), ok)]
           /\ reads' = reads \cup {<<r, input_file>>}
           /\ writes' = writes \cup {<<r, clip_path>>}
    /\ i' = [i EXCEPT ![r] = @ + 1]
    /\ pc' = [pc EXCEPT ![r] = LoopPc(i[r] + 1, NumSegs(r))]
    /\ UNCHANGED <<req, uid, response, fetched, concatOk>>

\* open(list_file, "w") and f.writelines(clip_paths).
WriteList(r) ==
    /\ pc[r] = "listing"
    /\ fs' = WriteFile(fs, ListFile(uid[r]), ListContent(clip_paths[r]))
    /\ writes' = writes \cup {<<r, ListFile(uid[r])>>}
    /\ pc' = [pc EXCEPT ![r] = "concat"]
    /\ UNCHANGED <<req, uid, i, clip_paths, response, fetched, cutOk,
                   concatOk, reads>>

\* The files a list line names (the concat demuxer opens the quoted path).
Resolve(f, line) == {p \in DOMAIN f : ManifestLine(p) = line}

Playable(f, line) ==
    \E p \in Resolve(f, line) : f[p].kind \in {"source", "clip", "final"}

RECURSIVE JoinParts(_, _)
JoinParts(f, lines) ==
    IF lines = <<>> THEN <<>>
    ELSE LET p == CHOOSE q \in Resolve(f, Head(lines)) : TRUE
         IN  f[p].parts \o JoinParts(f, Tail(lines))

\* The concat demuxer can exit zero only on a list that names at least one
\* file and whose files all open.
CanConcat(f, lines) ==
    /\ lines # <<>>
    /\ \A k \in 1..Len(lines) : Playable(f, lines[k])

\* What the handler returns once the concatenation process has exited with
\* status ok: the status is not looked at.
ClipResult(final_output, ok) == FileResponse(final_output)

\* ffmpeg -f concat over list_file into final_output, then the return.  A
\* concatenation that exits non-zero leaves no file or a truncated one.
Concat(r) ==
    /\ pc[r] = "concat"
    /\ LET list_file == ListFile(uid[r])
           final_output == FinalOutput(uid[r])
           lines == fs[list_file].lines
       IN  /\ \/ /\ CanConcat(fs, lines)
                 /\ fs' = WriteFile(fs, final_output,
                                    FinalContent(JoinParts(fs, lines)))
                 /\ concatOk' = [concatOk EXCEPT ![r] = "ok"]
                 /\ response' = [response EXCEPT ![r] =
                                    ClipResult(final_output, TRUE)]
              \/ /\ \E left \in BOOLEAN :
                      fs' = IF left
                            THEN WriteFile(fs, final_output, PartialContent)
                            ELSE fs
                 /\ concatOk' = [concatOk EXCEPT ![r] = "failed"]
                 /\ response' = [response EXCEPT ![r] =
                                    ClipResult(final_output, FALSE)]
           /\ reads' = reads \cup {<<r, list_file>>}
                  \cup {<<r, p>> : p \in UNION {Resolve(fs, lines[k]) :
                                                  k \in 1..Len(lines)}}
           /\ writes' = writes \cup {<<r, final_output>>}
    /\ pc' = [pc EXCEPT ![r] = "done"]
    /\ UNCHANGED <<req, uid, i, clip_paths, fetched, cutOk>>

Next ==
    \E r \in Runs :
        \/ Submit(r)
        \/ Validate(r)
        \/ Download(r)
        \/ Cut(r)
        \/ WriteList(r)
        \/ Concat(r)

Spec == Init /\ [][Next]_vars

\* ------------------------------------------------------------------ helpers

\* The paths run r has written to, and those it has read.
OwnPaths(r) == {w[2] : w \in {x \in writes : x[1] = r}}

ReadPaths(r) == {w[2] : w \in {x \in reads : x[1] = r}}

\* The range segment k (from 1) of run r's request asks for.
Wanted(r, k) ==
    [url |-> req[r].url,
     start |-> req[r].segments[k].start,
     end |-> req[r].segments[k].end]

\* The list lines of the clips of indices 0..n-1 of run r, in that order.
LinesInIndexOrder(r, n) ==
    [k \in 1..n |-> ManifestLine(ClipPath(uid[r], k - 1))]

\* The segment rules of the data model.
ValidSegment(seg) == seg.start >= 0 /\ seg.end > seg.start

HasInvalidSegment(body) ==
    \E k \in 1..Len(body.segments) : ~ValidSegment(body.segments[k])

FailedIndices(r) == {k - 1 : k \in {j \in 1..Len(cutOk[r]) : ~cutOk[r][j]}}

RECURSIVE LinesOfCutClips(_, _)
LinesOfCutClips(r, n) ==
    IF n = 0 THEN <<>>
    ELSE IF cutOk[r][n]
         THEN Append(LinesOfCutClips(r, n - 1),
                     ManifestLine(ClipPath(uid[r], n - 1)))
         ELSE LinesOfCutClips(r, n - 1)

\* ------------------------------------------------------------------ claims

\* C1: the list file names the clips in ascending request index, each clip
\* holds the range of the segment of its index, and a final file produced by
\* the concatenation plays the request's segments in request order.
ManifestInRequestOrder ==
    \A r \in Runs :
        pc[r] \in {"concat", "done"} =>
            LET lines == fs[ListFile(uid[r])].lines
            IN  /\ \A k \in 1..Len(lines) :
                      /\ k <= NumSegs(r)
                      /\ lines[k] = ManifestLine(ClipPath(uid[r], k - 1))
                      /\ Exists(fs, ClipPath(uid[r], k - 1)) =>
                           fs[ClipPath(uid[r], k - 1)].parts = <<Wanted(r, k)>>
                /\ concatOk[r] = "ok" =>
                      fs[FinalOutput(uid[r])].parts =
                          [k \in 1..NumSegs(r) |-> Wanted(r, k)]

\* A finished run whose request lists a later range before an earlier one.
ManifestInRequestOrderWitness ==
    \E r \in Runs :
        /\ pc[r] = "done"
        /\ concatOk[r] = "ok"
        /\ NumSegs(r) = 2
        /\ req[r].segments[1].start > req[r].segments[2].start

\* C2: two runs never write the same path, and a run never reads a path
\* another run wrote.
RunsUseDisjointPaths ==
    \A r1, r2 \in Runs :
        r1 # r2 =>
            /\ OwnPaths(r1) \cap OwnPaths(r2) = {}
            /\ ReadPaths(r1) \cap OwnPaths(r2) = {}

\* Two finished runs of the same request, each with a source, a clip, a list
\* and a final file.
RunsUseDisjointPathsWitness ==
    /\ \A r \in Runs :
          /\ pc[r] = "done"
          /\ concatOk[r] = "ok"
          /\ Cardinality(OwnPaths(r)) >= 4
    /\ \A r1, r2 \in Runs : req[r1] = req[r2]

\* C3: after a failed download the run is Failed with the download error and
\* has cut nothing, listed nothing and concatenated nothing.
FetchFailureAborts ==
    \A r \in Runs :
        fetched[r] = "failed" =>
            /\ pc[r] = "failed"
            /\ response[r] = HTTPException(500, "Download failed")
            /\ OwnPaths(r) \subseteq {InputFile(uid[r])}
            /\ cutOk[r] = <<>>
            /\ concatOk[r] = "none"
            /\ \A k \in 0..NumSegs(r) : ~Exists(fs, ClipPath(uid[r], k))
            /\ ~Exists(fs, ListFile(uid[r]))
            /\ ~Exists(fs, FinalOutput(uid[r]))

FetchFailureAbortsWitness ==
    \E r \in Runs :
        /\ fetched[r] = "failed"
        /\ NumSegs(r) >= 1
        /\ \E q \in Runs : q # r /\ pc[q] = "done"

\* C4: a request with a segment that breaks the segment rules is rejected
\* with InvalidSegment before the download, and creates no file.
InvalidSegmentRejected ==
    \A r \in Runs :
        (/\ pc[r] \notin {"idle", "validating"}
         /\ req[r].typed
         /\ HasInvalidSegment(req[r])) =>
            /\ fetched[r] = "none"
            /\ OwnPaths(r) = {}
            /\ pc[r] \in {"failed", "fetching"}
            /\ pc[r] = "failed" => response[r].detail = "InvalidSegment"

\* C5: a request with no segment is rejected with InvalidSegment and never
\* fetches, cuts, concatenates or returns a final file.
EmptyRequestRejected ==
    \A r \in Runs :
        (/\ pc[r] \notin {"idle", "validating"}
         /\ req[r].typed
         /\ req[r].segments = <<>>) =>
            /\ fetched[r] = "none"
            /\ cutOk[r] = <<>>
            /\ concatOk[r] = "none"
            /\ response[r].kind # "file"
            /\ pc[r] \in {"failed", "fetching"}
            /\ pc[r] = "failed" => response[r].detail = "InvalidSegment"

\* C6: when some but not all cuts fail, every segment was still attempted,
\* the list names exactly the clips that were cut, in index order, and the
\* response names the failed indices.
PartialFailureReported ==
    \A r \in Runs :
        (/\ pc[r] = "done"
         /\ \E k \in 1..Len(cutOk[r]) : cutOk[r][k]
         /\ \E k \in 1..Len(cutOk[r]) : ~cutOk[r][k]) =>
            /\ Len(cutOk[r]) = NumSegs(r)
            /\ fs[ListFile(uid[r])].lines = LinesOfCutClips(r, NumSegs(r))
            /\ ReportedFailures(response[r]) = FailedIndices(r)

\* C7: a file is returned only after a concatenation that succeeded on at
\* least one cut clip; otherwise the caller gets ConcatFailed.
FinalOnlyAfterConcat ==
    \A r \in Runs :
        /\ response[r].kind = "file" =>
              /\ concatOk[r] = "ok"
              /\ \E k \in 1..Len(cutOk[r]) : cutOk[r][k]
        /\ concatOk[r] = "failed" =>
              /\ response[r].kind = "error"
              /\ response[r].detail = "ConcatFailed"

\* C8: in Failed, no file the run wrote remains.
FailedReleasesIntermediates ==
    \A r \in Runs :
        pc[r] = "failed" => \A p \in OwnPaths(r) : ~Exists(fs, p)

\* The stage of the pipeline's state machine a run is in.
Stage(s) ==
    CASE s = "idle" -> "Idle"
      [] s = "validating" -> "Validating"
      [] s = "fetching" -> "Fetching"
      [] s = "cutting" -> "Cutting"
      [] s \in {"listing", "concat"} -> "Assembling"
      [] s = "done" -> "Done"
      [] s = "failed" -> "Failed"

RunState(r) ==
    <<pc[r], req[r], uid[r], i[r], clip_paths[r], response[r], fetched[r],
      cutOk[r], concatOk[r]>>

\* A step of run r follows the order Validating, Fetching, Cutting(0), ...,
\* Cutting(n-1), Assembling, Done: cuts start after the fetch, take the
\* indices in ascending order once each, assembly starts after the last cut,
\* and a run in Done or Failed does nothing more.
StepInOrder(r) ==
    LET s == Stage(pc[r])
        t == Stage(pc'[r])
        n == NumSegs(r)
    IN  CASE s = "Idle" -> t \in {"Idle", "Validating"}
          [] s = "Validating" -> t \in {"Validating", "Fetching", "Failed"}
          [] s = "Fetching" ->
                \/ t \in {"Fetching", "Failed"}
                \/ t = "Cutting" /\ fetched'[r] = "ok" /\ i'[r] = 0 /\ n > 0
                \/ t = "Assembling" /\ fetched'[r] = "ok" /\ n = 0
          [] s = "Cutting" ->
                \/ t = "Cutting" /\ i'[r] = i[r] /\ cutOk'[r] = cutOk[r]
                \/ /\ i'[r] = i[r] + 1
                   /\ Len(cutOk'[r]) = i'[r]
                   /\ t = IF i'[r] < n THEN "Cutting" ELSE "Assembling"
                \/ t = "Failed"
          [] s = "Assembling" ->
                /\ t \in {"Assembling", "Done", "Failed"}
                /\ Len(cutOk'[r]) = n
          [] s \in {"Done", "Failed"} -> RunState(r)' = RunState(r)

\* A run leaves a stage whose tool reports failure for Failed.
FailureLeadsToFailed(r) ==
    /\ (fetched[r] = "none" /\ fetched'[r] = "failed") => pc'[r] = "failed"
    /\ (concatOk[r] = "none" /\ concatOk'[r] = "failed") => pc'[r] = "failed"

\* The stage order alone.
StagesInOrder == [][\A r \in Runs : StepInOrder(r)]_vars

\* Failed is entered from Validating and Fetching only.
FailedOnlyBeforeCutting ==
    \A r \in Runs : pc[r] = "failed" => fetched[r] # "ok"

\* C9: runs step through the stages in order, Failed is entered from every
\* stage whose step fails, and Done and Failed are final.
StagesInOrderWithFailure ==
    [][\A r \in Runs : StepInOrder(r) /\ FailureLeadsToFailed(r)]_vars

\* C10: after a successful download the run never fails; the list file has
\* one line per segment, line i naming the clip of index i whatever the cuts'
\* exit statuses; the concatenation always runs and the final path is
\* returned as a file whatever its exit status.
ManifestAndResponseIgnoreStatus ==
    \A r \in Runs :
        fetched[r] = "ok" =>
            /\ pc[r] \in {"cutting", "listing", "concat", "done"}
            /\ pc[r] # "done" => ENABLED (Cut(r) \/ WriteList(r) \/ Concat(r))
            /\ pc[r] \in {"concat", "done"} =>
                  /\ Len(cutOk[r]) = NumSegs(r)
                  /\ Exists(fs, ListFile(uid[r]))
                  /\ fs[ListFile(uid[r])].lines =
                        LinesInIndexOrder(r, NumSegs(r))
            /\ pc[r] = "done" =>
                  /\ concatOk[r] \in {"ok", "failed"}
                  /\ response[r] = FileResponse(FinalOutput(uid[r]))

\* A finished run with a failed cut, a good cut and a failed concatenation.
ManifestAndResponseIgnoreStatusWitness ==
    \E r \in Runs :
        /\ pc[r] = "done"
        /\ NumSegs(r) >= 2
        /\ \E k \in 1..Len(cutOk[r]) : ~cutOk[r][k]
        /\ \E k \in 1..Len(cutOk[r]) : cutOk[r][k]
        /\ concatOk[r] = "failed"

====
